---------------------------- MODULE Spec2Model ----------------------------
(***************************************************************************)
(* s3stream: streaming Put (multipart upload) and Get (ranged download)    *)
(* against an S3-like store.                                               *)
(*                                                                         *)
(* The repository ships the same engine twice: the variant built on        *)
(* aws-sdk-go v1 with github.com/pkg/errors (src/s3.go, called "v2" after  *)
(* its import path) and the variant built on aws-sdk-go-v2 with fmt.Errorf *)
(* (src/unnamed/part_001, import path "v3").  The variable sdk selects the *)
(* variant; the two differ in how errors are wrapped and in the            *)
(* configurable read-part size.                                            *)
(*                                                                         *)
(* One behaviour is one client program: Put(input) on a locator, then      *)
(* Get on the same locator, the consumer reading (or closing) the stream.  *)
(* Bytes are numbered 1..L so that loss, duplication and reordering are    *)
(* all visible.  An error value is the sequence of its wrap messages,      *)
(* outermost first, ending in the cause; the nil error is <<>>.            *)
(***************************************************************************)
EXTENDS Integers, Sequences, FiniteSets, TLC

\* ------------------------------------------------------------------ sizes
\* The block sizes and the part ceiling are scaled down (the source has
\* tempBlockSize 1 MiB, writeBlockSize 8 MiB, readBlockSize 16 MiB and
\* awsMaxParts 10000); the order tempBlockSize < writeBlockSize is kept.
tempBlockSize == 2

writeBlockSize == 4

readBlockSize == 3

awsMaxParts == 2

maxUploadRetries == 5

\* Longest input the reader delivers.
MaxLen == 9

\* Largest buffer the consumer passes to Read.
MaxReadBuf == 2

\* The largest read-part size WithReadPartSize accepts (5 GB in the source).
awsMaxPartSize == 4

\* The sizes a caller passes to WithReadPartSize: a negative one, zero, a
\* small one, the largest accepted and the first one over the limit.
ReadPartOptions == {-2, 0, 2, awsMaxPartSize, awsMaxPartSize + 1}

\* The error a cancelled context makes every remote call return.
Canceled == "context canceled"

\* The transport failures a remote call can report: two plain transport
\* errors and one structured remote-service error.
Causes == {"e1", "e2", "aws"}

Nil == <<>>

EOF == <<"EOF">>

ErrClosedPipe == <<"io: read/write on closed pipe">>

VARIABLES
    sdk,            \* "v2" (src/s3.go) or "v3" (src/unnamed/part_001)
    cancelled,      \* the context given to Put is cancelled (v3 variant)
    input,          \* the bytes the reader will deliver
    rpos,           \* bytes of input the reader has handed out
    pc,             \* where Put is
    i,              \* Put: current part number
    dataidx,        \* Put: bytes buffered in data
    total,          \* Put: bytes taken from the reader
    data,           \* Put: the writeBlockSize buffer
    temp,           \* Put: temp[:n] of the read being processed
    reachedEOF,     \* Put: the reader reported io.EOF
    completedParts, \* Put: the CompletedPart list
    tryNum,         \* uploadPart: attempt number
    pendErr,        \* Put: the error to return once Abort has been called
    origin,         \* why Put aborts: "none", "read", "upload", "maxparts"
    retN,           \* Put's returned count
    retErr,         \* Put's returned error
    calls,          \* remote calls of Put: counters per operation
    lastCause,      \* cause of the most recent failed remote call of Put
    abortCause,     \* cause reported by a failed AbortMultipartUpload
    uploaded,       \* store: parts accepted in the session
    session,        \* store: "none", "open", "completed" or "aborted"
    object,         \* store: the object at the locator
    opts,           \* the read-part sizes given as options to NewStoreWithClient
    storeErr,       \* the error NewStoreWithClient returned
    readPartSize,   \* Store.readPartSize (readBlockSize in the v2 variant)
    gpc,            \* where Get and its goroutine are
    gret,           \* what Get returned: "none", "stream" or "error"
    gretErr,        \* the error Get returned
    length,         \* Get: the ContentLength HeadObject reported
    gi,             \* goroutine: loop index i
    wbuf,           \* pipe: bytes of the blocked pw.Write not yet read
    pdone,          \* pipe: done is closed
    werr,           \* pipe: the write side's close error
    rerr,           \* pipe: the read side's close error
    requests,       \* the range requests issued, each with its outcome
    received,       \* consumer: bytes read from the stream
    cerr,           \* consumer: the error of its last Read
    firstFetchErr   \* the error getDataInRange returned at the first failed fetch

putVars == <<sdk, cancelled, input, rpos, pc, i, dataidx, total, data, temp, reachedEOF,
             completedParts, tryNum, pendErr, origin, retN, retErr, calls,
             lastCause, abortCause, uploaded, session, object>>

confVars == <<opts, storeErr, readPartSize>>

getVars == <<confVars, gpc, gret, gretErr, length, gi, wbuf, pdone, werr,
             rerr, requests, received, cerr, firstFetchErr>>

vars == <<putVars, getVars>>

\* ------------------------------------------------------------------ helpers
Min(a, b) == IF a < b THEN a ELSE b

Iota(n) == [j \in 1..n |-> j]

\* errors.Wrap of github.com/pkg/errors: nil stays nil.
Wrap(err, msg) == IF err = Nil THEN Nil ELSE <<msg>> \o err

\* fmt.Errorf(msg + ": %w", err): never nil, a nil operand prints as %!w(<nil>).
Errorf(msg, err) == <<msg>> \o (IF err = Nil THEN <<"%!w(<nil>)">> ELSE err)

\* The wrap of the variant in use.
WrapBy(v, err, msg) == IF v = "v2" THEN Wrap(err, msg) ELSE Errorf(msg, err)

Carries(err, cause) == \E j \in 1..Len(err) : err[j] = cause

\* copy(data[dataidx:], temp[:n]): copies min(n, len(data)-dataidx) bytes.
CopyInto(d, idx, t) ==
    [j \in 1..Len(d) |-> IF j > idx /\ j <= idx + Len(t) THEN t[j - idx] ELSE d[j]]

\* Go's integer division and remainder: the quotient is truncated toward
\* zero and the remainder has the sign of the dividend (a >= 0, b # 0 here).
Quo(a, b) == IF b > 0 THEN a \div b ELSE 0 - (a \div (0 - b))

Rem(a, b) == IF b > 0 THEN a % b ELSE a % (0 - b)

\* The error of the option WithReadPartSize(size): only a size over the
\* limit is rejected.
WithReadPartSize(size) ==
    IF size > awsMaxPartSize THEN <<"part size is over AWS limits">> ELSE Nil

\* The option lists a caller can give: the v2 constructor takes none, the v3
\* constructor none or one WithReadPartSize.
Options(v) ==
    IF v = "v2" THEN {<<>>} ELSE {<<>>} \cup {<<size>> : size \in ReadPartOptions}

\* NewStoreWithClient: the store starts with readBlockSize and applies the
\* options in order; the first option that fails makes it return Store{} and
\* the error.
RECURSIVE ApplyOptions(_, _)
ApplyOptions(size, os) ==
    IF os = <<>> THEN [readPartSize |-> size, err |-> Nil]
    ELSE IF WithReadPartSize(Head(os)) # Nil
    THEN [readPartSize |-> 0, err |-> WithReadPartSize(Head(os))]
    ELSE ApplyOptions(Head(os), Tail(os))

NewStoreWithClient(os) == ApplyOptions(readBlockSize, os)

Init ==
    /\ sdk \in {"v2", "v3"}
    /\ input \in {Iota(n) : n \in 0..MaxLen}
    /\ rpos = 0
    /\ cancelled = FALSE
    /\ opts \in Options(sdk)
    /\ storeErr = NewStoreWithClient(opts).err
    /\ readPartSize = NewStoreWithClient(opts).readPartSize
    /\ pc = IF NewStoreWithClient(opts).err = Nil THEN "create" ELSE "nostore"
    /\ i = 1
    /\ dataidx = 0
    /\ total = 0
    /\ data = [j \in 1..writeBlockSize |-> 0]
    /\ temp = <<>>
    /\ reachedEOF = FALSE
    /\ completedParts = <<>>
    /\ tryNum = 0
    /\ pendErr = Nil
    /\ origin = "none"
    /\ retN = 0
    /\ retErr = Nil
    /\ calls = [create |-> 0, complete |-> 0, abort |-> 0]
    /\ lastCause = Nil
    /\ abortCause = Nil
    /\ uploaded = <<>>
    /\ session = "none"
    /\ object = [present |-> FALSE, bytes |-> <<>>]
    /\ gpc = "idle"
    /\ gret = "none"
    /\ gretErr = Nil
    /\ length = 0
    /\ gi = 0
    /\ wbuf = <<>>
    /\ pdone = FALSE
    /\ werr = Nil
    /\ rerr = Nil
    /\ requests = <<>>
    /\ received = <<>>
    /\ cerr = Nil
    /\ firstFetchErr = Nil

\* ------------------------------------------------------------------ store
\* The entity tag the store returns for a part: an opaque token that
\* identifies the part's content.
ETagOf(body) == body

\* The bytes of the part the session holds under number num (the last upload
\* under a number wins).
PartBody(num) ==
    LET js == {j \in 1..Len(uploaded) : uploaded[j].PartNumber = num}
    IN  uploaded[CHOOSE j \in js : \A k \in js : k <= j].body

\* CompleteMultipartUpload is accepted when every listed part was uploaded
\* with that entity tag and the numbers ascend.
Completable(parts) ==
    /\ \A j \in 1..Len(parts) :
          /\ \E k \in 1..Len(uploaded) :
                uploaded[k].PartNumber = parts[j].PartNumber
          /\ ETagOf(PartBody(parts[j].PartNumber)) = parts[j].ETag
    /\ \A j \in 1..Len(parts) - 1 : parts[j].PartNumber < parts[j + 1].PartNumber

RECURSIVE Assemble(_)
Assemble(parts) ==
    IF parts = <<>> THEN <<>>
    ELSE PartBody(Head(parts).PartNumber) \o Assemble(Tail(parts))

\* GetObject with Range "bytes=start-end" on the stored object: the bytes
\* from offset start to offset end, cut at the object's end.
RangeBytes(start, end) ==
    SubSeq(object.bytes, start + 1, Min(end + 1, Len(object.bytes)))

\* ------------------------------------------------------------------ Put
\* Variant of UploadPartError: a fresh error that drops the cause.
UploadPartError_NoCause(v, c) == <<"Error while uploading: retried 5 times.">>

\* uploadPart's error after the last attempt failed with cause c: a
\* structured remote-service error and a plain error are reported apart.
UploadPartError(v, c) ==
    IF c = "aws"
    THEN IF v = "v2"
         THEN Wrap(<<c>>, "AWS Error while uploading: retried 5 times.")
         ELSE <<"aws error while uploading: retried 5 times.", c>>
    ELSE WrapBy(v, <<c>>, "Error while uploading: retried 5 times.")

\* abortMultipartUpload's return value, err being what the transport returned.
AbortResult(v, err) == WrapBy(v, err, "Could not abort upload")

\* Variant of AbortReturn: a failed abort is returned in place of the error
\* that led to it.
AbortReturn_AbortOnly(v, why, orig, aberr) ==
    IF aberr # Nil THEN aberr
    ELSE IF why = "upload" THEN WrapBy(v, orig, "Upload aborted")
    ELSE orig

\* What Put returns after abortMultipartUpload returned aberr: orig is the
\* error that led to the abort, why its kind.
AbortReturn(v, why, orig, aberr) ==
    IF aberr # Nil THEN WrapBy(v, orig, "Could not abort upload")
    ELSE IF why = "upload" THEN WrapBy(v, orig, "Upload aborted")
    ELSE orig

\* Variant of AfterAbort: the part-ceiling branch misses its return and falls
\* through to the finalize step.
AfterAbort_FallsThrough(why) == IF why = "maxparts" THEN "complete" ELSE "done"

\* Variant of AfterAbort: after an aborted part upload the whole Put is
\* started over.
AfterAbort_RetryPut(why) == IF why = "upload" THEN "create" ELSE "done"

\* Where Put is after the abort call: every abort branch returns.
AfterAbort(why) == "done"

\* The error built when the loop ends by the part ceiling: it wraps Put's
\* outer err, which is the nil error of the successful CreateMultipartUpload.
MaxPartsError(v) == WrapBy(v, Nil, "MaxPartsNumber limit reached. Aborting")

\* Variant of LastTry: the loop gives up one attempt late.
LastTry_OneMore(t) == t = maxUploadRetries + 1

\* The retry bound of uploadPart's loop.
LastTry(t) == t = maxUploadRetries

\* Variant of CantBuffer: the test looks at the buffered size alone, before
\* the bytes just read are counted.
CantBuffer_PreAppend(idx, n) == idx >= writeBlockSize

\* Variant of CantBuffer: the buffer is flushed already when the bytes just
\* read would fill it exactly.
CantBuffer_Eager(idx, n) == idx + n >= writeBlockSize

\* The flush test of the loop body.
CantBuffer(idx, n) == idx + n > writeBlockSize

\* Variant of NextPart: the part number is not advanced after a flush.
NextPart_Stuck(ii) == ii

\* i++ after a flushed part.
NextPart(ii) == ii + 1

\* Lines 170-189 and the loop test: buffer temp[:n]; then upload the rest at
\* EOF, read again, or leave the loop by the part ceiling and go to abort.
BufferAndGo(ii, idx, t, eof) ==
    /\ data' = CopyInto(data, idx, t)
    /\ dataidx' = idx + Len(t)
    /\ total' = total + Len(t)
    /\ i' = ii
    /\ reachedEOF' = eof
    /\ temp' = <<>>
    /\ IF eof
       THEN /\ pc' = IF idx + Len(t) > writeBlockSize THEN "panic" ELSE "final"
            /\ tryNum' = 1
            /\ UNCHANGED <<pendErr, origin>>
       ELSE IF ii <= awsMaxParts
       THEN /\ pc' = "read"
            /\ UNCHANGED <<tryNum, pendErr, origin>>
       ELSE /\ pc' = "abort"
            /\ pendErr' = MaxPartsError(sdk)
            /\ origin' = "maxparts"
            /\ UNCHANGED tryNum

\* The causes a remote call of Put can fail with: every call made with a
\* cancelled context fails with the cancellation error.
RemoteCauses == IF cancelled THEN {Canceled} ELSE Causes

\* The caller cancels the context it gave to Put (the v3 variant takes one)
\* while Put runs with its session created.
Cancel ==
    /\ sdk = "v3" /\ ~cancelled
    /\ pc \in {"read", "flush", "final", "abort", "complete"}
    /\ cancelled' = TRUE
    /\ UNCHANGED <<sdk, input, rpos, pc, i, dataidx, total, data, temp,
                   reachedEOF, completedParts, tryNum, pendErr, origin, retN,
                   retErr, calls, lastCause, abortCause, uploaded, session,
                   object>>
    /\ UNCHANGED getVars

\* s.api.CreateMultipartUpload succeeds.
CreateOK ==
    /\ pc = "create"
    /\ pc' = "read"
    /\ calls' = [calls EXCEPT !.create = @ + 1]
    /\ session' = "open"
    /\ UNCHANGED <<sdk, cancelled, input, rpos, i, dataidx, total, data, temp, reachedEOF,
                   completedParts, tryNum, pendErr, origin, retN, retErr,
                   lastCause, abortCause, uploaded, object>>
    /\ UNCHANGED getVars

\* s.api.CreateMultipartUpload fails: Put returns 0 and the wrapped error.
CreateFail ==
    /\ pc = "create"
    /\ \E c \in Causes :
          /\ lastCause' = <<c>>
          /\ retErr' = WrapBy(sdk, <<c>>, "Could not create multipart upload.")
    /\ retN' = 0
    /\ pc' = "done"
    /\ calls' = [calls EXCEPT !.create = @ + 1]
    /\ UNCHANGED <<sdk, cancelled, input, rpos, i, dataidx, total, data, temp, reachedEOF,
                   completedParts, tryNum, pendErr, origin, abortCause,
                   uploaded, session, object>>
    /\ UNCHANGED getVars

\* r.Read(temp) returns n bytes and a nil error or io.EOF; the iteration runs
\* on to its next remote call.
ReadOK ==
    /\ pc = "read"
    /\ \E n \in 0..Min(tempBlockSize, Len(input) - rpos), eof \in BOOLEAN :
          /\ eof => rpos + n = Len(input)
          /\ rpos' = rpos + n
          /\ LET t == SubSeq(input, rpos + 1, rpos + n)
             IN  IF CantBuffer(dataidx, n)
                 THEN /\ pc' = IF dataidx > writeBlockSize THEN "panic" ELSE "flush"
                      /\ temp' = t
                      /\ reachedEOF' = eof
                      /\ tryNum' = 1
                      /\ UNCHANGED <<i, dataidx, total, data, pendErr, origin>>
                 ELSE BufferAndGo(i, dataidx, t, eof)
    /\ UNCHANGED <<sdk, cancelled, input, completedParts, retN, retErr, calls, lastCause,
                   abortCause, uploaded, session, object>>
    /\ UNCHANGED getVars

\* r.Read(temp) returns an error other than io.EOF: Put goes to abort.
ReadFail ==
    /\ pc = "read"
    /\ \E n \in 0..Min(tempBlockSize, Len(input) - rpos), c \in Causes :
          /\ rpos' = rpos + n
          /\ lastCause' = <<c>>
          /\ pendErr' = WrapBy(sdk, <<c>>, "Could not read part")
    /\ origin' = "read"
    /\ pc' = "abort"
    /\ UNCHANGED <<sdk, cancelled, input, i, dataidx, total, data, temp, reachedEOF,
                   completedParts, tryNum, retN, retErr, calls, abortCause,
                   uploaded, session, object>>
    /\ UNCHANGED getVars

\* One s.api.UploadPart attempt of uploadPart succeeds: the part is recorded;
\* after a flush the pending read is buffered, after the final part the loop
\* is left and Put goes to complete.
UploadOK ==
    /\ pc \in {"flush", "final"} /\ ~cancelled
    /\ LET body == SubSeq(data, 1, dataidx)
       IN  /\ uploaded' = Append(uploaded, [PartNumber |-> i, body |-> body])
           /\ completedParts' = Append(completedParts,
                                       [PartNumber |-> i, ETag |-> ETagOf(body)])
    /\ IF pc = "flush"
       THEN BufferAndGo(NextPart(i), 0, temp, reachedEOF)
       ELSE /\ pc' = "complete"
            /\ UNCHANGED <<i, dataidx, total, data, temp, reachedEOF, tryNum,
                           pendErr, origin>>
    /\ UNCHANGED <<sdk, cancelled, input, rpos, retN, retErr, calls, lastCause,
                   abortCause, session, object>>
    /\ UNCHANGED getVars

\* One s.api.UploadPart attempt fails: retry, or give up after the last try.
UploadFail ==
    /\ pc \in {"flush", "final"}
    /\ \E c \in RemoteCauses :
          /\ lastCause' = <<c>>
          /\ IF LastTry(tryNum)
             THEN /\ pendErr' = WrapBy(sdk, UploadPartError(sdk, c),
                                       "Could not upload part")
                  /\ origin' = "upload"
                  /\ pc' = "abort"
                  /\ UNCHANGED tryNum
             ELSE /\ tryNum' = tryNum + 1
                  /\ UNCHANGED <<pendErr, origin, pc>>
    /\ UNCHANGED <<sdk, cancelled, input, rpos, i, dataidx, total, data, temp, reachedEOF,
                   completedParts, retN, retErr, calls, abortCause, uploaded,
                   session, object>>
    /\ UNCHANGED getVars

\* s.api.AbortMultipartUpload succeeds: the session is discarded.
AbortOK ==
    /\ pc = "abort" /\ ~cancelled
    /\ calls' = [calls EXCEPT !.abort = @ + 1]
    /\ session' = "aborted"
    /\ retN' = total
    /\ retErr' = AbortReturn(sdk, origin, pendErr, AbortResult(sdk, Nil))
    /\ pc' = AfterAbort(origin)
    /\ UNCHANGED <<sdk, cancelled, input, rpos, i, dataidx, total, data, temp, reachedEOF,
                   completedParts, tryNum, pendErr, origin, lastCause,
                   abortCause, uploaded, object>>
    /\ UNCHANGED getVars

\* s.api.AbortMultipartUpload fails: the session stays open on the store.
AbortFail ==
    /\ pc = "abort"
    /\ calls' = [calls EXCEPT !.abort = @ + 1]
    /\ \E c \in RemoteCauses :
          /\ abortCause' = <<c>>
          /\ retErr' = AbortReturn(sdk, origin, pendErr, AbortResult(sdk, <<c>>))
    /\ retN' = total
    /\ pc' = AfterAbort(origin)
    /\ UNCHANGED <<sdk, cancelled, input, rpos, i, dataidx, total, data, temp, reachedEOF,
                   completedParts, tryNum, pendErr, origin, lastCause,
                   uploaded, session, object>>
    /\ UNCHANGED getVars

\* s.api.CompleteMultipartUpload succeeds: the store assembles the object.
CompleteOK ==
    /\ pc = "complete" /\ ~cancelled
    /\ Completable(completedParts)
    /\ calls' = [calls EXCEPT !.complete = @ + 1]
    /\ object' = [present |-> TRUE, bytes |-> Assemble(completedParts)]
    /\ session' = "completed"
    /\ retN' = total
    /\ retErr' = Nil
    /\ pc' = "done"
    /\ UNCHANGED <<sdk, cancelled, input, rpos, i, dataidx, total, data, temp, reachedEOF,
                   completedParts, tryNum, pendErr, origin, lastCause,
                   abortCause, uploaded>>
    /\ UNCHANGED getVars

\* s.api.CompleteMultipartUpload fails.
CompleteFail ==
    /\ pc = "complete"
    /\ calls' = [calls EXCEPT !.complete = @ + 1]
    /\ \E c \in RemoteCauses :
          /\ lastCause' = <<c>>
          /\ retErr' = WrapBy(sdk, <<c>>, "Error while completing upload")
    /\ retN' = total
    /\ pc' = "done"
    /\ UNCHANGED <<sdk, cancelled, input, rpos, i, dataidx, total, data, temp, reachedEOF,
                   completedParts, tryNum, pendErr, origin, abortCause,
                   uploaded, session, object>>
    /\ UNCHANGED getVars

\* ------------------------------------------------------------------ Get
\* The range of iteration k of the full-block loop (lines 67-69).
BlockRange(k, p) == [start |-> k * p, end |-> k * p + p - 1]

\* Variant of RemainderRange: the inclusive end is one too far.
RemainderRange_OffByOne(len, p) ==
    [start |-> Quo(len, p) * p, end |-> Quo(len, p) * p + Rem(len, p)]

\* The range of the remainder (lines 80-83).
RemainderRange(len, p) ==
    [start |-> Quo(len, p) * p, end |-> Quo(len, p) * p + Rem(len, p) - 1]

\* The full-block loop still has iteration k to run.
InLoop(k, len, p) == k < Quo(len, p)

\* The value of i when the full-block loop is left.
LoopEnd(len, p) == IF Quo(len, p) > 0 THEN Quo(len, p) ELSE 0

\* The request the goroutine issues at index k: a full block while the loop
\* runs, the remainder once after it.
RangeAt(k, len, p) ==
    IF InLoop(k, len, p) THEN BlockRange(k, p) ELSE RemainderRange(len, p)

\* The goroutine has a request to issue at index k.
HasRequest(k, len, p) ==
    InLoop(k, len, p) \/ (k = LoopEnd(len, p) /\ Rem(len, p) > 0)

\* onceError.Store: only the first error is kept.
StoreOnce(old, err) == IF old # Nil THEN old ELSE err

\* pipe.readCloseError.
ReadCloseError(re, we) == IF re = Nil /\ we # Nil THEN we ELSE ErrClosedPipe

\* pipe.writeCloseError.
WriteCloseError(re, we) == IF we = Nil /\ re # Nil THEN re ELSE ErrClosedPipe

\* The error given to CloseWithError when pw.Write failed at index k.
WriteError(v, k, len, p, err) ==
    WrapBy(v, err, IF InLoop(k, len, p) THEN "Could not write data"
                   ELSE "Could not get data")

\* getDataInRange's error when GetObject (or reading its body) failed with
\* cause c.
GetDataError(v, c) == WrapBy(v, <<c>>, "Could not get object")

\* Variant of FetchCloseError: the fetch error is dropped and the pipe closed
\* without it.
FetchCloseError_Dropped(v, err) == Nil

\* The error the goroutine gives to pw.CloseWithError after a failed fetch.
FetchCloseError(v, err) == WrapBy(v, err, "Could not get data")

\* pw.CloseWithError(err) on a pipe whose write error is old: a nil err
\* stands for io.EOF, and the first error stored stays.
CloseWithError(old, err) == StoreOnce(old, IF err = Nil THEN EOF ELSE err)

\* Variant of DeferredClose: the goroutine has no deferred pw.Close().
DeferredClose_Missing(we) == we

\* The write error of the pipe after the deferred pw.Close() of the
\* goroutine: Close is CloseWithError(nil).
DeferredClose(we) == CloseWithError(we, Nil)

\* The goroutine moves on to index k with the pipe's write error we and done
\* flag dn: the next request, or the end of the function, where the deferred
\* pw.Close() stores io.EOF and closes done.
Advance(k, we, dn) ==
    /\ gi' = k
    /\ IF HasRequest(k, length, readPartSize)
       THEN /\ gpc' = "fetch"
            /\ werr' = we
            /\ pdone' = dn
       ELSE /\ gpc' = "end"
            /\ werr' = DeferredClose(we)
            /\ pdone' = (dn \/ DeferredClose(we) # Nil)

\* Put has returned and the client goes on to Get: Put's locals and the
\* record of its session are no longer looked at; the client keeps the
\* reader, the count and the error Put returned, and gives Get a context of
\* its own.
PutFrameGone ==
    /\ pc' = "returned"
    /\ i' = 1
    /\ dataidx' = 0
    /\ total' = 0
    /\ data' = [j \in 1..writeBlockSize |-> 0]
    /\ temp' = <<>>
    /\ reachedEOF' = FALSE
    /\ completedParts' = <<>>
    /\ tryNum' = 0
    /\ pendErr' = Nil
    /\ origin' = "none"
    /\ lastCause' = Nil
    /\ abortCause' = Nil
    /\ uploaded' = <<>>
    /\ cancelled' = FALSE
    /\ UNCHANGED <<sdk, input, rpos, retN, retErr, calls, session, object>>

\* Variant of HeadError: the wrap is given an error variable that is nil.
HeadError_WrongErr(v, c) == WrapBy(v, Nil, "Could not get metadata for object")

\* The error Get returns when HeadObject failed with cause c.
HeadError(v, c) == WrapBy(v, <<c>>, "Could not get metadata for object")

\* Get: HeadObject succeeds; the pipe is made, the goroutine started and the
\* read side returned.
HeadOK ==
    /\ pc = "done" /\ gpc = "idle"
    /\ object.present
    /\ PutFrameGone
    /\ length' = Len(object.bytes)
    /\ gret' = "stream"
    /\ gi' = 0
    /\ gpc' = "start"
    /\ UNCHANGED <<confVars, gretErr, wbuf, pdone, werr, rerr, requests,
                   received, cerr, firstFetchErr>>

\* Get: HeadObject reports that there is no object at the locator.
HeadMissing ==
    /\ pc = "done" /\ gpc = "idle"
    /\ ~object.present
    /\ PutFrameGone
    /\ gretErr' = HeadError(sdk, "NotFound")
    /\ gret' = "error"
    /\ gpc' = "failed"
    /\ UNCHANGED <<confVars, length, gi, wbuf, pdone, werr, rerr, requests,
                   received, cerr, firstFetchErr>>

\* Get: HeadObject fails in the transport; Get returns nil and the wrapped
\* error.
HeadFail ==
    /\ pc = "done" /\ gpc = "idle"
    /\ PutFrameGone
    /\ \E c \in Causes : gretErr' = HeadError(sdk, c)
    /\ gret' = "error"
    /\ gpc' = "failed"
    /\ UNCHANGED <<confVars, length, gi, wbuf, pdone, werr, rerr, requests,
                   received, cerr, firstFetchErr>>

\* The goroutine starts: it enters the loop, or ends at once.  The loop test
\* divides by the part size: with a part size of 0 the goroutine panics and
\* its deferred pw.Close() runs.  The process is still running then: the
\* consumer's goroutine can go on until the runtime exits.
Start ==
    /\ gpc = "start"
    /\ IF readPartSize = 0
       THEN /\ gpc' = "panicking"
            /\ werr' = DeferredClose(werr)
            /\ pdone' = (pdone \/ DeferredClose(werr) # Nil)
            /\ UNCHANGED gi
       ELSE Advance(0, werr, pdone)
    /\ UNCHANGED <<putVars, confVars, gret, gretErr, length, wbuf, rerr,
                   requests, received, cerr, firstFetchErr>>

\* The deferred calls of the panicking goroutine have run: the runtime prints
\* the panic and ends the process, the consumer with it.
Exit ==
    /\ gpc = "panicking"
    /\ gpc' = "panic"
    /\ UNCHANGED <<putVars, confVars, gret, gretErr, length, gi, wbuf, pdone,
                   werr, rerr, requests, received, cerr, firstFetchErr>>

\* getDataInRange succeeds and pw.Write(data) is entered: it blocks with the
\* data on offer, or, done being closed, returns at once with an error, which
\* goes to CloseWithError, and the loop goes on.
FetchOK ==
    /\ gpc = "fetch"
    /\ LET r == RangeAt(gi, length, readPartSize)
       IN  /\ requests' = Append(requests, [start |-> r.start, end |-> r.end,
                                            ok |-> TRUE])
           /\ IF pdone
              THEN /\ Advance(gi + 1,
                              CloseWithError(werr,
                                  WriteError(sdk, gi, length, readPartSize,
                                             WriteCloseError(rerr, werr))),
                              TRUE)
                   /\ UNCHANGED wbuf
              ELSE /\ wbuf' = RangeBytes(r.start, r.end)
                   /\ gpc' = "write"
                   /\ UNCHANGED <<gi, werr, pdone>>
    /\ UNCHANGED <<putVars, confVars, gret, gretErr, length, rerr,
                   received, cerr, firstFetchErr>>

\* getDataInRange fails: pw.CloseWithError(err); the code then still calls
\* pw.Write(nil), which fails on the closed pipe, calls CloseWithError with
\* that error, and goes on with the loop.
FetchFail ==
    /\ gpc = "fetch"
    /\ \E c \in Causes :
          LET r == RangeAt(gi, length, readPartSize)
              err == GetDataError(sdk, c)
              we1 == CloseWithError(werr, FetchCloseError(sdk, err))
              we2 == CloseWithError(we1,
                         WriteError(sdk, gi, length, readPartSize,
                                    WriteCloseError(rerr, we1)))
          IN  /\ requests' = Append(requests, [start |-> r.start, end |-> r.end,
                                               ok |-> FALSE])
              /\ firstFetchErr' = IF firstFetchErr = Nil THEN err ELSE firstFetchErr
              /\ Advance(gi + 1, we2, TRUE)
    /\ UNCHANGED <<putVars, confVars, gret, gretErr, length, wbuf, rerr,
                   received, cerr>>

\* The blocked pw.Write returns because the read side was closed: the
\* goroutine calls CloseWithError and goes on with the loop.
WriteAborted ==
    /\ gpc = "write" /\ pdone
    /\ wbuf' = <<>>
    /\ Advance(gi + 1,
               CloseWithError(werr, WriteError(sdk, gi, length, readPartSize,
                                               WriteCloseError(rerr, werr))),
               TRUE)
    /\ UNCHANGED <<putVars, confVars, gret, gretErr, length, rerr,
                   requests, received, cerr, firstFetchErr>>

\* Variant of WriteDone: the write returns as soon as one Read took bytes.
WriteDone_Early(nr, buf) == nr > 0

\* pw.Write(data) returns to the goroutine when the Reads have taken all of
\* data: nr bytes are being taken of the buf still on offer.
WriteDone(nr, buf) == nr = Len(buf)

\* The consumer's Read(buf) meets the blocked pw.Write: it takes up to len(buf)
\* bytes; the Write returns when all its bytes are taken.
ReadData ==
    /\ gret = "stream" /\ rerr = Nil /\ cerr = Nil
    /\ gpc = "write" /\ ~pdone
    /\ \E b \in 1..MaxReadBuf :
          LET nr == Min(b, Len(wbuf))
          IN  /\ received' = received \o SubSeq(wbuf, 1, nr)
              /\ wbuf' = SubSeq(wbuf, nr + 1, Len(wbuf))
              /\ IF WriteDone(nr, wbuf)
                 THEN Advance(gi + 1, werr, pdone)
                 ELSE UNCHANGED <<gpc, gi, werr, pdone>>
    /\ UNCHANGED <<putVars, confVars, gret, gretErr, length, rerr,
                   requests, cerr, firstFetchErr>>

\* The consumer's Read on the closed pipe returns the close error; a process
\* that has exited reads nothing.
ReadClosed ==
    /\ gret = "stream" /\ rerr = Nil /\ cerr = Nil
    /\ pdone /\ gpc # "panic"
    /\ cerr' = ReadCloseError(rerr, werr)
    /\ UNCHANGED <<putVars, confVars, gpc, gret, gretErr, length, gi, wbuf,
                   pdone, werr, rerr, requests, received, firstFetchErr>>

\* The consumer closes the stream: pr.Close(), while the process runs.
Close ==
    /\ gret = "stream" /\ rerr = Nil
    /\ gpc # "panic"
    /\ rerr' = ErrClosedPipe
    /\ pdone' = TRUE
    /\ UNCHANGED <<putVars, confVars, gpc, gret, gretErr, length, gi, wbuf,
                   werr, requests, received, cerr, firstFetchErr>>

Next ==
    \/ CreateOK \/ CreateFail
    \/ Cancel
    \/ ReadOK \/ ReadFail
    \/ UploadOK \/ UploadFail
    \/ AbortOK \/ AbortFail
    \/ CompleteOK \/ CompleteFail
    \/ HeadOK \/ HeadMissing \/ HeadFail
    \/ Start \/ Exit
    \/ FetchOK \/ FetchFail
    \/ WriteAborted
    \/ ReadData \/ ReadClosed
    \/ Close

Spec == Init /\ [][Next]_vars

\* The scheduling of a Get: the goroutine runs when it can (it starts, a
\* range request returns, a pw.Write on the closed pipe returns, the runtime
\* ends the process after a panic), and the consumer goes on, reading or
\* closing the stream.
Fairness ==
    /\ WF_vars(Start)
    /\ WF_vars(Exit)
    /\ WF_vars(FetchOK \/ FetchFail)
    /\ WF_vars(WriteAborted)
    /\ WF_vars(ReadData \/ ReadClosed \/ Close)

LiveSpec == Spec /\ Fairness

\* ------------------------------------------------------------------ claims
\* A Get served without a transport fault: HeadObject answered from the
\* store and every range fetch succeeded.
GetFaultFree ==
    /\ \A c \in Causes : ~Carries(gretErr, c)
    /\ \A j \in 1..Len(requests) : requests[j].ok

SomeFetchFailed == \E j \in 1..Len(requests) : ~requests[j].ok

FirstFailed ==
    CHOOSE j \in 1..Len(requests) :
        ~requests[j].ok /\ \A k \in 1..(j - 1) : requests[k].ok

\* The bytes the first j range requests returned: a failed request returned
\* none.
RECURSIVE Fetched(_)
Fetched(j) ==
    IF j = 0 THEN <<>>
    ELSE Fetched(j - 1) \o (IF requests[j].ok
                            THEN RangeBytes(requests[j].start, requests[j].end)
                            ELSE <<>>)

\* C1: after a Put that returned no error, a Get on the same locator that is
\* served without a transport fault and read to the end yields a stream whose
\* bytes are the input and which ends with end-of-stream, not an error.
C1_RoundTrip ==
    (/\ pc = "returned" /\ retErr = Nil
     /\ GetFaultFree
     /\ (gret = "error" \/ (gret = "stream" /\ rerr = Nil /\ cerr # Nil)))
    => (gret = "stream" /\ cerr = EOF /\ received = input)

\* C2: when Put returns after CreateMultipartUpload succeeded, exactly one of
\* CompleteMultipartUpload and AbortMultipartUpload has been called, once.
C2_ExactlyOneFinalizer ==
    /\ calls.complete + calls.abort <= 1
    /\ (pc = "done" /\ session # "none") => calls.complete + calls.abort = 1

C2_Witness ==
    pc = "done" /\ session = "aborted" /\ calls.abort = 1 /\ calls.complete = 0

\* C3: for length L and part size P > 0 Get issues ceil(L/P) range requests,
\* the k-th (from 0) being bytes=k*P..min((k+1)*P, L)-1: they cover [0, L)
\* once, without gap or overlap, and the last has length L - P*(n-1).
C3_RangePlan ==
    (gret = "stream" /\ readPartSize > 0) =>
        LET P == readPartSize
            n == (length + P - 1) \div P
        IN  /\ Len(requests) <= n
            /\ \A j \in 1..Len(requests) :
                  /\ requests[j].start = (j - 1) * P
                  /\ requests[j].end = Min(j * P, length) - 1
            /\ \A j \in 1..Len(requests) - 1 :
                  requests[j + 1].start = requests[j].end + 1
            /\ gpc = "end" =>
                  /\ Len(requests) = n
                  /\ (n = 0) <=> (length = 0)
                  /\ n > 0 =>
                        /\ requests[1].start = 0
                        /\ requests[n].end = length - 1
                        /\ requests[n].end - requests[n].start + 1
                              = length - P * (n - 1)

C3_Witness ==
    /\ gpc = "end" /\ Len(requests) = 3
    /\ readPartSize > 0 /\ length % readPartSize > 0
    /\ \A j \in 1..Len(requests) : requests[j].ok

\* C4: the part list Put passes to CompleteMultipartUpload, and the list of
\* any Put that returns no error, is numbered 1, 2, ..., n in this order,
\* n being the number of parts whose upload succeeded.
C4_DenseNumbering ==
    (pc = "complete" \/ (pc = "done" /\ retErr = Nil)) =>
        /\ \A j \in 1..Len(completedParts) : completedParts[j].PartNumber = j
        /\ Len(completedParts) = Len(uploaded)

C4_Witness ==
    /\ pc = "done" /\ retErr = Nil /\ calls.complete = 1
    /\ Len(completedParts) = 2 /\ Len(input) > writeBlockSize

\* C5: uploadPart makes at most maxUploadRetries attempts for a part and
\* stops at the first that succeeds: the part is recorded with its number and
\* entity tag, Put goes on, no Abort is issued for the failed attempts, and
\* the next attempt, if any, is the first one of the next part.
C5_RetryUntilSuccess ==
    [][/\ pc \in {"flush", "final"} => tryNum \in 1..maxUploadRetries
       /\ (pc \in {"flush", "final"} /\ Len(uploaded') > Len(uploaded)) =>
             /\ completedParts' =
                   Append(completedParts,
                          [PartNumber |-> i,
                           ETag |-> ETagOf(SubSeq(data, 1, dataidx))])
             /\ calls'.abort = calls.abort
             /\ origin' # "upload"
             /\ pc' \in {"read", "final", "complete", "abort"}
             /\ pc' = "abort" => origin' = "maxparts"
             /\ pc' = "final" => (i' = i + 1 /\ tryNum' = 1)]_vars

C5_Witness ==
    /\ pc = "complete" /\ tryNum = maxUploadRetries
    /\ Len(completedParts) = 2 /\ calls.abort = 0

\* C6: when all maxUploadRetries attempts for a part fail, Put makes no
\* further attempt, uploads no further part, calls Abort and not Complete,
\* and returns an upload-part error that carries the cause of the last attempt.
C6_RetryExhausted ==
    /\ (pc = "abort" /\ origin = "upload") => tryNum = maxUploadRetries
    /\ (pc = "done" /\ origin = "upload") =>
          /\ tryNum = maxUploadRetries
          /\ Len(uploaded) = i - 1
          /\ calls.abort = 1 /\ calls.complete = 0
          /\ retErr # Nil
          /\ Carries(retErr, "Could not upload part")
          /\ Carries(retErr, lastCause[1])

C6_Witness ==
    /\ pc = "done" /\ origin = "upload" /\ Len(uploaded) = 1
    /\ lastCause = <<"aws">>

\* C7: when the loop ends by the part ceiling before end-of-stream, Put
\* returns a non-nil too-many-parts error, Abort has been called and Complete
\* has not.
C7_TooManyParts ==
    (pc = "done" /\ origin = "maxparts") =>
        /\ retErr # Nil
        /\ Carries(retErr, "MaxPartsNumber limit reached. Aborting")
        /\ calls.abort = 1 /\ calls.complete = 0

\* C8: once HeadObject succeeded Get has returned a stream and no error, also
\* when a range fetch fails; the consumer that keeps reading gets the bytes
\* of all ranges before the first failed one and then, as the error of a
\* Read, the error of that first failed fetch.
C8_FetchErrorOnRead ==
    SomeFetchFailed =>
        /\ gret = "stream" /\ gretErr = Nil
        /\ rerr = Nil =>
              /\ received = Fetched(FirstFailed - 1)
              /\ cerr # Nil => cerr = WrapBy(sdk, firstFetchErr, "Could not get data")

C8_Witness ==
    /\ SomeFetchFailed /\ rerr = Nil
    /\ Len(received) > 0
    /\ cerr # Nil
    /\ \E j \in 1..Len(requests) : j > FirstFailed /\ ~requests[j].ok

\* C9: after a range fetch of a Get has failed, the goroutine issues no
\* further range request: a failed request is the last one.
C9_NoFetchAfterFailure == \A j \in 1..Len(requests) - 1 : requests[j].ok

\* C10: when Put aborts and the Abort call fails too, the error Put returns
\* carries the failure that led to the abort and the cause of the abort
\* failure.
C10_AbortErrorCarriesBoth ==
    (pc = "done" /\ abortCause # Nil) =>
        /\ \A j \in 1..Len(pendErr) : Carries(retErr, pendErr[j])
        /\ Carries(retErr, abortCause[1])

\* C11: when the context is cancelled after the session was created and
\* before Put returns (the reader not failing on its own), Put has called
\* AbortMultipartUpload when it returns, and the error it returns carries the
\* cancellation error.
C11_CancelAborts ==
    (pc = "done" /\ cancelled /\ origin # "read") =>
        /\ calls.abort = 1
        /\ Carries(retErr, Canceled)

\* The sum of the sizes of the first j parts the store accepted.
RECURSIVE Written(_)
Written(j) == IF j = 0 THEN 0 ELSE Written(j - 1) + Len(uploaded[j].body)

\* C12: whenever Put returns, with or without an error, the count it returns
\* is the sum of the sizes of the parts whose UploadPart succeeded.
C12_CountIsBytesWritten ==
    pc = "done" => retN = Written(Len(uploaded))

\* C13: the goroutine issues the next range request only when nothing of the
\* previous range is left in the pipe, the consumer having read every byte
\* fetched so far unless the stream has been closed; the bytes held
\* unconsumed are never more than the rest of the one range last fetched.
C13_Backpressure ==
    /\ gpc = "fetch" =>
          /\ wbuf = <<>>
          /\ pdone \/ received = Fetched(Len(requests))
    /\ wbuf # <<>> =>
          /\ gpc = "write"
          /\ Len(wbuf) <= requests[Len(requests)].end
                            - requests[Len(requests)].start + 1
          /\ received \o wbuf = Fetched(Len(requests))

C13_Witness ==
    /\ gpc = "fetch" /\ ~pdone
    /\ Len(requests) >= 2
    /\ Len(received) > MaxReadBuf
    /\ received = Fetched(Len(requests))

\* C14: when HeadObject fails Get returns no stream and a non-nil error that
\* wraps the head failure; no goroutine runs, the pipe is never used and no
\* range request is issued.
C14_HeadFailure ==
    /\ gret = "error" =>
          /\ gretErr # Nil
          /\ \E c \in Causes \cup {"NotFound"} :
                gretErr = <<"Could not get metadata for object", c>>
          /\ gpc = "failed"
          /\ requests = <<>> /\ wbuf = <<>> /\ ~pdone
          /\ received = <<>> /\ cerr = Nil
    /\ gpc = "failed" => gret = "error"
    /\ gret = "stream" => gretErr = Nil

C14_Witness ==
    /\ gret = "error" /\ object.present
    /\ gretErr = <<"Could not get metadata for object", "aws">>

\* C15: for an object of reported length 0 Get returns a stream, its
\* goroutine issues no range request and ends by closing the pipe, and the
\* consumer's first Read reports end-of-stream with zero bytes.
C15_EmptyObject ==
    (gret = "stream" /\ length = 0) =>
        /\ requests = <<>> /\ received = <<>>
        /\ gpc \in {"start", "end"}
        /\ gpc = "end" => (werr = EOF /\ pdone)
        /\ (rerr = Nil /\ cerr # Nil) => cerr = EOF

\* C16: NewStoreWithClient returns an error for every read-part size given
\* through WithReadPartSize that is zero, negative or above awsMaxPartSize, so
\* that no Get runs with such a size; a size in 1..awsMaxPartSize is accepted
\* and is the size the ranges are planned with.
C16_InvalidSizeRejected ==
    /\ \A j \in 1..Len(opts) :
          /\ (opts[j] < 1 \/ opts[j] > awsMaxPartSize) => storeErr # Nil
          /\ opts[j] \in 1..awsMaxPartSize =>
                (storeErr = Nil /\ readPartSize = opts[Len(opts)])
    /\ storeErr # Nil => (pc = "nostore" /\ gret = "none")
    /\ gret # "none" => readPartSize \in 1..awsMaxPartSize

\* C17: a Put of an input of exactly 2*writeBlockSize bytes whose remote
\* calls all succeed (the part ceiling being out of reach at this length)
\* returns no error after uploading exactly 2 parts of writeBlockSize bytes
\* each and making one CompleteMultipartUpload call that lists parts 1 and 2
\* in this order.
C17_TwoFullParts ==
    (/\ pc = "done" /\ Len(input) = 2 * writeBlockSize
     /\ lastCause = Nil /\ abortCause = Nil /\ ~cancelled
     /\ origin # "maxparts") =>
        /\ retErr = Nil
        /\ calls.complete = 1 /\ calls.abort = 0
        /\ Len(uploaded) = 2
        /\ \A j \in 1..Len(uploaded) : Len(uploaded[j].body) = writeBlockSize
        /\ Len(completedParts) = 2
        /\ \A j \in 1..Len(completedParts) : completedParts[j].PartNumber = j

\* C18: whenever the goroutine of a Get stands between two range requests,
\* the number of bytes the stream has produced is the number of bytes all the
\* range fetches issued so far returned; and once the consumer has reached
\* end-of-stream, the number of bytes produced is the length HeadObject
\* reported.
C18_CumulativeBytes ==
    /\ (gpc = "fetch" /\ Len(requests) > 0) =>
          Len(received) = Len(Fetched(Len(requests)))
    /\ (gret = "stream" /\ cerr = EOF) => Len(received) = length

\* C19: Put never buffers more than writeBlockSize bytes, so no uploaded part
\* is larger than writeBlockSize; and the final part is empty exactly when
\* the input has no bytes.
C19_PartSizeCap ==
    /\ dataidx <= writeBlockSize
    /\ pc # "panic"
    /\ \A j \in 1..Len(uploaded) : Len(uploaded[j].body) <= writeBlockSize
    /\ pc = "final" => ((dataidx = 0) <=> (Len(input) = 0))
    /\ (pc = "complete" \/ (pc = "done" /\ calls.complete = 1)) =>
          ((Len(uploaded[Len(uploaded)].body) = 0) <=> (Len(input) = 0))

C19_Witness ==
    /\ pc = "flush" /\ dataidx = writeBlockSize
    /\ Len(temp) = tempBlockSize

\* C20: when Put returns no error, the payloads of the uploaded parts, put
\* together in part-number order, are the input byte sequence, however the
\* reader split the input into Read results.
C20_Rechunking ==
    (pc = "done" /\ retErr = Nil) =>
        /\ rpos = Len(input)
        /\ Assemble(completedParts) = input
        /\ \A j \in 1..Len(completedParts) - 1 :
              completedParts[j].PartNumber < completedParts[j + 1].PartNumber
        /\ Len(completedParts) = Len(uploaded)

\* The remote calls Put has made, by where Put is: none before
\* CreateMultipartUpload, the create alone while it reads and uploads, and
\* at most one of complete and abort once it has returned.
CallOrder ==
    /\ calls.create <= 1
    /\ pc \in {"create", "nostore"} =>
          /\ calls = [create |-> 0, complete |-> 0, abort |-> 0]
          /\ rpos = 0 /\ uploaded = <<>> /\ tryNum = 0 /\ session = "none"
    /\ pc \in {"read", "flush", "final", "abort", "complete"} =>
          /\ calls = [create |-> 1, complete |-> 0, abort |-> 0]
          /\ session = "open"
    /\ (pc = "done" /\ session = "none") =>
          /\ calls = [create |-> 1, complete |-> 0, abort |-> 0]
          /\ retN = 0 /\ retErr # Nil
          /\ rpos = 0 /\ uploaded = <<>> /\ tryNum = 0
    /\ (pc = "done" /\ session # "none") =>
          /\ calls.create = 1
          /\ calls.complete + calls.abort = 1

\* C21: the remote calls of one Put follow Create -> UploadPart* ->
\* (Complete | Abort): the create is the first call and is made once; when it
\* fails Put returns 0 and an error with the input unread and no other call
\* made; reads and part uploads happen only before the complete or abort
\* call; and once Put has returned the input is not read again and no
\* remote call of Put is made.
C21_CallOrder ==
    [][/\ CallOrder /\ CallOrder'
       /\ Len(uploaded') > Len(uploaded) =>
             (calls.complete = 0 /\ calls.abort = 0 /\ calls.create = 1)
       /\ rpos' # rpos => (calls.complete = 0 /\ calls.abort = 0)
       /\ pc \in {"done", "returned"} =>
             /\ pc' = "returned"
             /\ rpos' = rpos /\ calls' = calls
             /\ session' = session /\ object' = object]_vars

C21_Witness ==
    /\ pc = "done" /\ calls = [create |-> 1, complete |-> 0, abort |-> 1]
    /\ Len(uploaded) = 1 /\ rpos = Len(input) /\ origin = "upload"

\* C22: when a Read of the input returns an error other than io.EOF, Put
\* reads no more, uploads no further part, calls AbortMultipartUpload and not
\* CompleteMultipartUpload, and returns a non-nil error that wraps the read
\* error.
C22_ReadError ==
    [][/\ origin = "read" =>
             /\ rpos' = rpos
             /\ Len(uploaded') <= Len(uploaded)
             /\ calls'.complete = 0
             /\ pc \in {"abort", "done"}
       /\ (origin = "read" /\ pc = "abort") =>
             /\ calls.abort = 0
             /\ pc' \in {"abort", "done"}
             /\ pc' = "done" =>
                   /\ calls'.abort = 1
                   /\ retErr' # Nil
                   /\ Carries(retErr', "Could not read part")
                   /\ Carries(retErr', lastCause[1])]_vars

C22_Witness ==
    /\ pc = "done" /\ origin = "read" /\ abortCause # Nil
    /\ Len(uploaded) = 1 /\ rpos < Len(input)
    /\ Carries(retErr, lastCause[1])

\* C23: every UploadPart call Put issues carries a part number in
\* 1..awsMaxParts, however the reader delivers the input.
C23_PartNumberRange ==
    /\ pc \in {"flush", "final"} => i \in 1..awsMaxParts
    /\ \A j \in 1..Len(uploaded) : uploaded[j].PartNumber \in 1..awsMaxParts

\* C24: Put returns a nil error only if CompleteMultipartUpload was called
\* and succeeded; whenever AbortMultipartUpload was called the error Put
\* returns is not nil.
C24_NilOnlyAfterComplete ==
    pc = "done" =>
        /\ retErr = Nil => (calls.complete = 1 /\ session = "completed")
        /\ calls.abort = 1 => retErr # Nil

\* C25: the error Put returns has the 'could not abort upload' form exactly
\* when the AbortMultipartUpload call returned an error; and when the Abort
\* call succeeds after a part upload failed, Put returns the 'upload aborted'
\* form, which wraps the upload failure alone.
C25_AbortErrorForm ==
    (pc = "done" /\ calls.abort = 1) =>
        /\ Carries(retErr, "Could not abort upload") <=> abortCause # Nil
        /\ (origin = "upload" /\ abortCause = Nil) =>
              retErr = <<"Upload aborted">> \o pendErr

\* C26: every part uploaded before the final one (the parts numbered below
\* the current part number) is non-empty and holds more than
\* writeBlockSize - tempBlockSize bytes, whatever the sizes of the Read
\* results.
C26_NonFinalPartSize ==
    /\ pc = "flush" => (dataidx > 0 /\ dataidx > writeBlockSize - tempBlockSize)
    /\ \A j \in 1..Len(uploaded) :
          uploaded[j].PartNumber < i =>
              /\ Len(uploaded[j].body) > 0
              /\ Len(uploaded[j].body) > writeBlockSize - tempBlockSize

C26_Witness ==
    /\ pc = "complete" /\ Len(uploaded) = 2
    /\ uploaded[1].PartNumber < i
    /\ Len(uploaded[1].body) = writeBlockSize - tempBlockSize + 1
    /\ Len(uploaded[2].body) <= writeBlockSize - tempBlockSize

\* C27: once Get has returned a stream, with a consumer that keeps reading or
\* closes the stream, the goroutine eventually terminates (by returning, or
\* by the panic of a part size of 0, which runs the deferred close as well)
\* and the write side of the pipe is closed.
C27_GoroutineEnds ==
    (gret = "stream") ~> (gpc \in {"end", "panic"} /\ pdone /\ werr # Nil)

C27_Witness ==
    /\ gpc = "end" /\ pdone /\ werr # Nil
    /\ rerr # Nil /\ Len(received) > 0
    /\ Len(requests) > 1 /\ Len(received) < length

\* C28: once the consumer has closed the stream and a pw.Write of the
\* goroutine has failed on the closed pipe (no fetch having failed), the
\* goroutine issues no further range request.
C28_NoFetchAfterClose ==
    [][(rerr # Nil /\ werr # Nil /\ ~SomeFetchFailed) =>
           requests' = requests]_vars
=============================================================================
